---- MODULE Spec2Model ----
(***************************************************************************)
(* A model of scripts/get_weather.py: the temporal query parser, the       *)
(* stripping of temporal clauses, the source selector and the staged       *)
(* fetch-with-fallback chain of main().                                    *)
(* Text is modelled as sequences of one-character strings, so the regular  *)
(* expressions of the script are computed character by character.          *)
(* Spec is one invocation of the script; QuerySpec is the front of main()  *)
(* (detection, parsing, stripping, geocoding) over a wider set of query    *)
(* texts and clock readings; SelectSpec is the source selection over the   *)
(* coordinates around the regional box.  The functions that work on the    *)
(* contents of the answers have a specification each: RankSpec (the        *)
(* ranking of alerts), AccumSpec (the accumulation events of the grid data *)
(* and of the forecast text), MoonSpec (the moon phase) and ObsSpec (the   *)
(* comparison of the observed with the forecast temperature).              *)
(***************************************************************************)
EXTENDS Integers, Sequences, FiniteSets, TLC

\* Python's None
None == [kind |-> "None"]

(***************************************************************************)
(* Bounds of the model.                                                    *)
(***************************************************************************)
\* how many of the gridpoint descriptor's fields may be absent at once
MaxMissing == 1

(***************************************************************************)
(* Characters and text helpers.                                            *)
(***************************************************************************)
Digits == <<"0", "1", "2", "3", "4", "5", "6", "7", "8", "9">>

UpperCase == <<"A", "B", "C", "D", "E", "F", "G", "H", "I", "J", "K", "L", "M",
               "N", "O", "P", "Q", "R", "S", "T", "U", "V", "W", "X", "Y", "Z">>

LowerCase == <<"a", "b", "c", "d", "e", "f", "g", "h", "i", "j", "k", "l", "m",
               "n", "o", "p", "q", "r", "s", "t", "u", "v", "w", "x", "y", "z">>

IsDigit(c) == \E k \in 1..10 : Digits[k] = c

DigitVal(c) == (CHOOSE k \in 1..10 : Digits[k] = c) - 1

IsSpace(c) == c = " "

LowerChar(c) ==
    IF \E k \in 1..26 : UpperCase[k] = c
    THEN LowerCase[CHOOSE k \in 1..26 : UpperCase[k] = c]
    ELSE c

\* str.lower()
Lower(s) == [k \in 1..Len(s) |-> LowerChar(s[k])]

\* the literal w occurs in s at position i
MatchAt(s, i, w) ==
    /\ i >= 1
    /\ i + Len(w) - 1 <= Len(s)
    /\ \A k \in 1..Len(w) : s[i + k - 1] = w[k]

\* Python's  w in s  and re.search of a literal
Contains(s, w) == \E i \in 1..Len(s) : MatchAt(s, i, w)

AllSpaces(s, i, j) == \A k \in i..j : IsSpace(s[k])

\* re.search(w + r'\s+\d+', s)
LitSpacesDigit(s, w) ==
    \E i \in 1..Len(s) : \E j \in 1..Len(s) :
        /\ MatchAt(s, i, w)
        /\ j > i + Len(w)
        /\ AllSpaces(s, i + Len(w), j - 1)
        /\ IsDigit(s[j])

\* re.search(r'\d+\s*(?:am|pm)', s)
DigitAmPm(s) ==
    \E i \in 1..Len(s) : \E j \in 1..Len(s) :
        /\ IsDigit(s[i])
        /\ j > i
        /\ AllSpaces(s, i + 1, j - 1)
        /\ (MatchAt(s, j, <<"a", "m">>) \/ MatchAt(s, j, <<"p", "m">>))

\* re.search(r'\d+:\d+', s)
DigitColonDigit(s) ==
    \E i \in 1..Len(s) :
        /\ i + 2 <= Len(s)
        /\ IsDigit(s[i])
        /\ s[i + 1] = ":"
        /\ IsDigit(s[i + 2])

\* the last position of the maximal run of digits starting at i (i - 1 if none)
RECURSIVE DigitRunEnd(_, _)
DigitRunEnd(s, i) ==
    IF i <= Len(s) /\ IsDigit(s[i]) THEN DigitRunEnd(s, i + 1) ELSE i - 1

\* the first position at or after i that holds no whitespace
RECURSIVE SkipSpaces(_, _)
SkipSpaces(s, i) ==
    IF i <= Len(s) /\ IsSpace(s[i]) THEN SkipSpaces(s, i + 1) ELSE i

\* int() of a run of digits
RECURSIVE ToInt(_)
ToInt(d) ==
    IF d = <<>> THEN 0
    ELSE 10 * ToInt(SubSeq(d, 1, Len(d) - 1)) + DigitVal(d[Len(d)])

(***************************************************************************)
(* Words of the script's patterns.                                         *)
(***************************************************************************)
W_tonight == <<"t", "o", "n", "i", "g", "h", "t">>
W_tonight_at == <<"t", "o", "n", "i", "g", "h", "t", " ", "a", "t">>
W_this_afternoon ==
    <<"t", "h", "i", "s", " ", "a", "f", "t", "e", "r", "n", "o", "o", "n">>
W_tomorrow == <<"t", "o", "m", "o", "r", "r", "o", "w">>
W_tomorrow_at == <<"t", "o", "m", "o", "r", "r", "o", "w", " ", "a", "t">>
W_tomorrow_morning ==
    <<"t", "o", "m", "o", "r", "r", "o", "w", " ", "m", "o", "r", "n", "i", "n", "g">>
W_tomorrow_afternoon ==
    <<"t", "o", "m", "o", "r", "r", "o", "w", " ",
      "a", "f", "t", "e", "r", "n", "o", "o", "n">>
W_tomorrow_night ==
    <<"t", "o", "m", "o", "r", "r", "o", "w", " ", "n", "i", "g", "h", "t">>
W_at == <<"a", "t">>
W_when_will == <<"w", "h", "e", "n", " ", "w", "i", "l", "l">>
W_how_long_until ==
    <<"h", "o", "w", " ", "l", "o", "n", "g", " ", "u", "n", "t", "i", "l">>
W_stop_raining == <<"s", "t", "o", "p", " ", "r", "a", "i", "n", "i", "n", "g">>
W_stop_snowing == <<"s", "t", "o", "p", " ", "s", "n", "o", "w", "i", "n", "g">>
W_start_raining ==
    <<"s", "t", "a", "r", "t", " ", "r", "a", "i", "n", "i", "n", "g">>
W_start_snowing ==
    <<"s", "t", "a", "r", "t", " ", "s", "n", "o", "w", "i", "n", "g">>
W_morning == <<"m", "o", "r", "n", "i", "n", "g">>
W_afternoon == <<"a", "f", "t", "e", "r", "n", "o", "o", "n">>
W_night == <<"n", "i", "g", "h", "t">>
W_am == <<"a", "m">>
W_pm == <<"p", "m">>
W_snow == <<"s", "n", "o", "w">>
W_storm == <<"s", "t", "o", "r", "m">>
W_accumulation ==
    <<"a", "c", "c", "u", "m", "u", "l", "a", "t", "i", "o", "n">>
W_january == <<"j", "a", "n", "u", "a", "r", "y">>
W_february == <<"f", "e", "b", "r", "u", "a", "r", "y">>
W_march == <<"m", "a", "r", "c", "h">>

(***************************************************************************)
(* TemporalQueryParser.                                                    *)
(***************************************************************************)
\* TEMPORAL_PATTERNS, in order: whether each pattern is found in s
TEMPORAL_PATTERNS(s) ==
    << LitSpacesDigit(s, W_tonight_at),
       Contains(s, W_tonight),
       Contains(s, W_this_afternoon),
       Contains(s, W_tomorrow_morning),
       Contains(s, W_tomorrow_afternoon),
       Contains(s, W_tomorrow_night),
       LitSpacesDigit(s, W_tomorrow_at),
       Contains(s, W_tomorrow),
       DigitAmPm(s),
       LitSpacesDigit(s, W_at),
       Contains(s, W_when_will),
       Contains(s, W_how_long_until),
       Contains(s, W_stop_raining),
       Contains(s, W_stop_snowing),
       Contains(s, W_start_raining),
       Contains(s, W_start_snowing),
       DigitColonDigit(s) >>

is_temporal_query(loc) ==
    LET found == TEMPORAL_PATTERNS(Lower(loc))
    IN  \E k \in 1..Len(found) : found[k]

\* a datetime: day 0 is the day of "now"
DateTime(d, h, m, sec, us) ==
    [day |-> d, hour |-> h, minute |-> m, second |-> sec, microsecond |-> us]

\* a datetime on a whole second
Time(d, h, m, sec) == DateTime(d, h, m, sec, 0)

\* t + timedelta(days=1)
NextDay(t) == [t EXCEPT !.day = @ + 1]

\* t.replace(hour=h, minute=m)
ReplaceHourMinute(t, h, m) == [t EXCEPT !.hour = h, !.minute = m]

TimeLess(a, b) ==
    \/ a.day < b.day
    \/ a.day = b.day /\ a.hour < b.hour
    \/ a.day = b.day /\ a.hour = b.hour /\ a.minute < b.minute
    \/ a.day = b.day /\ a.hour = b.hour /\ a.minute = b.minute
          /\ a.second < b.second
    \/ a.day = b.day /\ a.hour = b.hour /\ a.minute = b.minute
          /\ a.second = b.second /\ a.microsecond < b.microsecond

\* the uncaught exception of datetime.replace
ValueError == [kind |-> "ValueError"]

\* the branch of parse_target_time taken when the text holds a digit:
\* re.search(r'(\d+):?(\d*)?\s*(am|pm)?') matches at the first digit
ClockTime(s, nw) ==
    LET i     == CHOOSE k \in 1..Len(s) :
                     IsDigit(s[k]) /\ \A q \in 1..(k - 1) : ~IsDigit(s[q])
        e1    == DigitRunEnd(s, i)
        p2    == IF e1 + 1 <= Len(s) /\ s[e1 + 1] = ":" THEN e1 + 2 ELSE e1 + 1
        e2    == DigitRunEnd(s, p2)
        p3    == SkipSpaces(s, e2 + 1)
        ampm  == IF MatchAt(s, p3, W_am) THEN "am"
                 ELSE IF MatchAt(s, p3, W_pm) THEN "pm" ELSE "none"
        h0    == ToInt(SubSeq(s, i, e1))
        minute == IF e2 >= p2 THEN ToInt(SubSeq(s, p2, e2)) ELSE 0
        hour  == IF ampm = "pm" /\ h0 # 12 THEN h0 + 12
                 ELSE IF ampm = "am" /\ h0 = 12 THEN 0 ELSE h0
        target == Time(0, hour, minute, 0)
    IN  IF hour > 23 \/ minute > 59 THEN ValueError
        ELSE IF TimeLess(target, nw) THEN Time(1, hour, minute, 0)
        ELSE target

\* parse_target_time: a timestamp, None, or ValueError (raised by
\* datetime.replace for an hour above 23 or a minute above 59)
parse_target_time(loc, nw) ==
    LET s == Lower(loc)
    IN  IF \E k \in 1..Len(s) : IsDigit(s[k]) THEN ClockTime(s, nw)
        ELSE IF Contains(s, W_tomorrow) THEN
            IF Contains(s, W_morning)
            THEN ReplaceHourMinute(NextDay(nw), 8, 0)
            ELSE IF Contains(s, W_afternoon)
            THEN ReplaceHourMinute(NextDay(nw), 14, 0)
            ELSE IF Contains(s, W_night)
            THEN ReplaceHourMinute(NextDay(nw), 20, 0)
            ELSE ReplaceHourMinute(NextDay(nw), 12, 0)
        ELSE IF Contains(s, W_tonight) THEN
            IF nw.hour < 20 THEN ReplaceHourMinute(nw, 20, 0)
            ELSE ReplaceHourMinute(NextDay(nw), 20, 0)
        ELSE IF Contains(s, W_this_afternoon) THEN
            IF TimeLess(nw, ReplaceHourMinute(nw, 15, 0))
            THEN ReplaceHourMinute(nw, 15, 0) ELSE None
        ELSE nw

\* the winter keyword test of main()
WinterKeywords ==
    <<W_snow, W_storm, W_accumulation, W_january, W_february, W_march>>

IsWinterQuery(loc) ==
    \E k \in 1..Len(WinterKeywords) : Contains(Lower(loc), WinterKeywords[k])

(***************************************************************************)
(* strip_temporal_qualifiers: the eight substitutions, in order, then      *)
(* str.strip().  Each pattern is given by the end of its match at a        *)
(* position of the lowered text (0 when it does not match there).          *)
(***************************************************************************)
\* r'\s+at\s+\d+' at i: the position of the last digit, or 0
AtDigitsEnd(t, i) ==
    LET a == SkipSpaces(t, i)
        d == SkipSpaces(t, a + 2)
        e == DigitRunEnd(t, d)
    IN  IF a > i /\ MatchAt(t, a, W_at) /\ d > a + 2 /\ e >= d THEN e ELSE 0

\* r'\s+at\s+\d+.*?(?:am|pm)?': the lazy .*? stays empty, and am/pm is
\* taken only when it follows the digits at once
AtClockEnd(t, i) ==
    LET e == AtDigitsEnd(t, i)
    IN  IF e = 0 THEN 0
        ELSE IF MatchAt(t, e + 1, W_am) \/ MatchAt(t, e + 1, W_pm) THEN e + 2
        ELSE e

\* r'\s+' + w + r'\s*$'
WordToEnd(t, i, w) ==
    LET a == SkipSpaces(t, i)
    IN  IF a > i /\ MatchAt(t, a, w)
           /\ SkipSpaces(t, a + Len(w)) = Len(t) + 1
        THEN Len(t) ELSE 0

\* r'\s+tonight\s*$'
TonightEnd(t, i) == WordToEnd(t, i, W_tonight)

\* r'\s+this afternoon\s*$'
ThisAfternoonEnd(t, i) == WordToEnd(t, i, W_this_afternoon)

\* r'\s+tomorrow\s*(?:morning|afternoon|night)?\s*$'
TomorrowEnd(t, i) ==
    LET a == SkipSpaces(t, i)
        b == SkipSpaces(t, a + Len(W_tomorrow))
    IN  IF a > i /\ MatchAt(t, a, W_tomorrow)
           /\ \/ b = Len(t) + 1
              \/ \E w \in {W_morning, W_afternoon, W_night} :
                    /\ MatchAt(t, b, w)
                    /\ SkipSpaces(t, b + Len(w)) = Len(t) + 1
        THEN Len(t) ELSE 0

\* r'\s+' + w + r'.*$'
WordAndRest(t, i, w) ==
    LET a == SkipSpaces(t, i)
    IN  IF a > i /\ MatchAt(t, a, w) THEN Len(t) ELSE 0

\* r'\s+when will.*$'
WhenWillEnd(t, i) == WordAndRest(t, i, W_when_will)

\* r'\s+how long until.*$'
HowLongUntilEnd(t, i) == WordAndRest(t, i, W_how_long_until)

\* r'\s+at\s+\d+:\d+.*$'
AtClockColonEnd(t, i) ==
    LET e == AtDigitsEnd(t, i)
    IN  IF e > 0 /\ e + 2 <= Len(t) /\ t[e + 1] = ":" /\ IsDigit(t[e + 2])
        THEN Len(t) ELSE 0

\* r'\s+\d+\s*(?:am|pm)\s*$'
DigitsAmPmEnd(t, i) ==
    LET a == SkipSpaces(t, i)
        e == DigitRunEnd(t, a)
        b == SkipSpaces(t, e + 1)
    IN  IF a > i /\ e >= a
           /\ (MatchAt(t, b, W_am) \/ MatchAt(t, b, W_pm))
           /\ SkipSpaces(t, b + 2) = Len(t) + 1
        THEN Len(t) ELSE 0

\* patterns_to_remove[k - 1], as the end of its match at position i of t
patterns_to_remove(k, t, i) ==
    CASE k = 1 -> AtClockEnd(t, i)
      [] k = 2 -> TonightEnd(t, i)
      [] k = 3 -> ThisAfternoonEnd(t, i)
      [] k = 4 -> TomorrowEnd(t, i)
      [] k = 5 -> WhenWillEnd(t, i)
      [] k = 6 -> HowLongUntilEnd(t, i)
      [] k = 7 -> AtClockColonEnd(t, i)
      [] k = 8 -> DigitsAmPmEnd(t, i)

\* what a substitution leaves of s from position i on: every match of the
\* k-th pattern in the lowered text t, leftmost first, is dropped
RECURSIVE ReSubFrom(_, _, _, _)
ReSubFrom(k, s, t, i) ==
    IF i > Len(s) THEN <<>>
    ELSE LET e == patterns_to_remove(k, t, i)
         IN  IF e > 0 THEN ReSubFrom(k, s, t, e + 1)
             ELSE <<s[i]>> \o ReSubFrom(k, s, t, i + 1)

\* re.sub(pattern, '', s, flags=re.IGNORECASE) for the k-th pattern
ReSub(k, s) == ReSubFrom(k, s, Lower(s), 1)

\* str.strip()
RECURSIVE Strip(_)
Strip(s) ==
    IF s = <<>> THEN s
    ELSE IF IsSpace(s[1]) THEN Strip(Tail(s))
    ELSE IF IsSpace(s[Len(s)]) THEN Strip(SubSeq(s, 1, Len(s) - 1))
    ELSE s

strip_temporal_qualifiers(text) ==
    LET r1 == ReSub(1, text)
        r2 == ReSub(2, r1)
        r3 == ReSub(3, r2)
        r4 == ReSub(4, r3)
        r5 == ReSub(5, r4)
        r6 == ReSub(6, r5)
        r7 == ReSub(7, r6)
        r8 == ReSub(8, r7)
    IN  Strip(r8)

(***************************************************************************)
(* SourceSelector.                                                         *)
(***************************************************************************)
\* a box without its border
is_us_location_OpenBox(lat, lon) ==
    24 < lat /\ lat < 49 /\ -125 < lon /\ lon < -66

is_us_location(lat, lon) == 24 <= lat /\ lat <= 49 /\ -125 <= lon /\ lon <= -66

SelectSource(pref, lat, lon) ==
    IF pref = "nws" THEN TRUE
    ELSE IF pref = "wttr" THEN FALSE
    ELSE IF pref = "auto" THEN is_us_location(lat, lon)
    ELSE FALSE

(***************************************************************************)
(* The inputs of one invocation.                                           *)
(***************************************************************************)
Q_Boston_MA == <<"B", "o", "s", "t", "o", "n", ",", " ", "M", "A">>
Q_Fairbanks_at_3am ==
    <<"F", "a", "i", "r", "b", "a", "n", "k", "s", " ", "a", "t", " ", "3", "a", "m">>
Q_Boston_02134_tonight ==
    <<"B", "o", "s", "t", "o", "n", " ", "0", "2", "1", "3", "4", " ",
      "t", "o", "n", "i", "g", "h", "t">>
Q_Denver_snow == <<"D", "e", "n", "v", "e", "r", " ", "s", "n", "o", "w">>
Q_Denver_snow_tonight ==
    <<"D", "e", "n", "v", "e", "r", " ", "s", "n", "o", "w", " ",
      "t", "o", "n", "i", "g", "h", "t">>
Q_Boston_this_afternoon ==
    <<"B", "o", "s", "t", "o", "n", " ",
      "t", "h", "i", "s", " ", "a", "f", "t", "e", "r", "n", "o", "o", "n">>

\* the query texts main() is run on
Queries ==
    { Q_Boston_MA, Q_Fairbanks_at_3am, Q_Boston_02134_tonight, Q_Denver_snow,
      Q_Denver_snow_tonight, Q_Boston_this_afternoon }

\* the readings of datetime.now()
NowSet == { Time(0, 9, 30, 15), Time(0, 21, 5, 0) }

SourcePrefs == {"auto", "nws", "wttr"}

\* what the geocoder may answer: no match (or an error), or a coordinate
Coordinates == { <<42, -71>>, <<48, 2>> }

\* a gridpoint descriptor: which of the fields main() reads are present
GridpointFields ==
    {"forecast", "forecastZone", "observationStations", "fireWeatherZone",
     "astronomicalData"}

Gridpoints ==
    { g \in [GridpointFields -> BOOLEAN] :
        Cardinality({f \in GridpointFields : ~g[f]}) <= MaxMissing }

\* payloads whose content the orchestration does not look into
Observation == [kind |-> "observation"]
Temperature == [kind |-> "temperature"]

(***************************************************************************)
(* The state of main().                                                    *)
(***************************************************************************)
VARIABLES
    location,           \* sys.argv[1]
    now,                \* datetime.now()
    source_pref, show_aqi, force_hourly, show_current, show_astro, show_taf,
    show_fire,          \* the options
    temporal_detected, target_time,
    clean_location,     \* the text handed to the geocoder
    lat, lon, use_nws, gridpoint, current_obs, forecast_temp,
    outputs,            \* the list of formatted blocks
    fetched,            \* the requests issued so far, each with its result
    sent,               \* the place texts put into requests, with their URLs
    stdout,             \* what has been printed
    exit_status,        \* how the process ended
    pc,                 \* the position in main()
    alerts,             \* the features of the alerts answer
    sorted_alerts,      \* sort_alerts_by_priority(alerts)
    grid_data,          \* the properties of the grid data answer
    forecast_periods,   \* the periods of the forecast answer
    accumulations,      \* extract_accumulations_from_grid(grid_data)
    parsed,             \* parse_accumulations_from_text(forecast_periods)
    date,               \* the day, in days since 2000-01-06
    moon_info,          \* calculate_moon_phase(date)
    formatted_obs       \* format_observation(current_obs, forecast_temp)

inputs ==
    <<location, now, source_pref, show_aqi, force_hourly, show_current,
      show_astro, show_taf, show_fire>>

vars ==
    <<location, now, source_pref, show_aqi, force_hourly, show_current,
      show_astro, show_taf, show_fire, temporal_detected, target_time,
      clean_location, lat, lon, use_nws, gridpoint, current_obs,
      forecast_temp, outputs, fetched, sent, stdout, exit_status, pc,
      alerts, sorted_alerts, grid_data, forecast_periods, accumulations,
      parsed, date, moon_info, formatted_obs>>

\* the contents of the answers, which the request-level actions of main()
\* leave aside: they are followed by the specifications of the functions
\* that work on them
ranking == <<alerts, sorted_alerts>>

accumulation == <<grid_data, forecast_periods, accumulations, parsed>>

astronomy == <<date, moon_info>>

details == <<ranking, accumulation, astronomy, formatted_obs>>

RankingAtRest ==
    /\ alerts = None
    /\ sorted_alerts = None

AccumulationAtRest ==
    /\ grid_data = None
    /\ forecast_periods = None
    /\ accumulations = None
    /\ parsed = None

AstronomyAtRest ==
    /\ date = None
    /\ moon_info = None

DetailsAtRest ==
    /\ RankingAtRest
    /\ AccumulationAtRest
    /\ AstronomyAtRest
    /\ formatted_obs = None

Request(ep, res) == [ep |-> ep, res |-> res]

\* urllib.parse.quote of one character: the queries hold letters, digits,
\* spaces and commas
QuoteChar(c) ==
    CASE c = " " -> <<"%", "2", "0">>
      [] c = "," -> <<"%", "2", "C">>
      [] OTHER -> <<c>>

RECURSIVE quote(_)
quote(s) == IF s = <<>> THEN <<>> ELSE QuoteChar(Head(s)) \o quote(Tail(s))

\* geocode_location(text): the text is stripped once more and quoted into
\* the URL of the search
geocode_location(text) ==
    LET stripped == strip_temporal_qualifiers(text)
    IN  [ep |-> "geocode", text |-> stripped, url |-> quote(stripped)]

\* location.replace(' ', '+')
ReplaceSpaces(s) == [k \in 1..Len(s) |-> IF s[k] = " " THEN "+" ELSE s[k]]

\* get_wttr_forecast(text) and get_wttr_current(text): the text goes into
\* the URL with its spaces replaced
get_wttr(ep, text) == [ep |-> ep, text |-> text, url |-> ReplaceSpaces(text)]

Init ==
    /\ location \in Queries
    /\ now \in NowSet
    /\ source_pref \in SourcePrefs
    /\ show_aqi \in BOOLEAN
    /\ force_hourly \in BOOLEAN
    /\ show_current \in BOOLEAN
    /\ show_astro \in BOOLEAN
    /\ show_taf \in BOOLEAN
    /\ show_fire \in BOOLEAN
    /\ temporal_detected = FALSE
    /\ target_time = None
    /\ clean_location = None
    /\ lat = None
    /\ lon = None
    /\ use_nws = FALSE
    /\ gridpoint = None
    /\ current_obs = None
    /\ forecast_temp = None
    /\ outputs = <<>>
    /\ fetched = <<>>
    /\ sent = <<>>
    /\ stdout = <<>>
    /\ exit_status = "running"
    /\ pc = "start"
    /\ DetailsAtRest

(***************************************************************************)
(* The order of the stages of the regional path: a stage whose option is   *)
(* off is skipped.                                                         *)
(***************************************************************************)
AfterFire == "finish"
AfterTaf == IF show_fire THEN "fire" ELSE AfterFire
AfterAstro == IF show_taf THEN "taf" ELSE AfterTaf
AfterAqi == IF show_astro THEN "astro" ELSE AfterAstro
\* an AQI stage entered without the option
AfterCurrent_AlwaysAqi == "aqi"

AfterCurrent == IF show_aqi THEN "aqi" ELSE AfterAqi
AfterForecast == IF show_current THEN "current" ELSE AfterCurrent
ForecastStage == IF temporal_detected THEN "hourly" ELSE "forecast"

(***************************************************************************)
(* Helpers of the actions.                                                 *)
(***************************************************************************)
\* list.insert(i, x), i counted from 0
ListInsert(l, i, x) ==
    LET k == IF i < Len(l) THEN i ELSE Len(l)
    IN  SubSeq(l, 1, k) \o <<x>> \o SubSeq(l, k + 1, Len(l))

\* what the alerts endpoint may answer: an error, no alert, some alerts
AlertsResponses == {"fail", "empty", "ok"}

\* get_nws_alerts: the requests it issues (none without a forecast zone)
AlertsRuns ==
    IF gridpoint.forecastZone
    THEN { <<Request("alerts", r)>> : r \in AlertsResponses }
    ELSE { <<>> }

\* get_station_observation: the requests it issues, in order
StationObservationRuns ==
    IF gridpoint.observationStations
    THEN { <<Request("stations", "fail")>>,
           <<Request("stations", "empty")>>,
           <<Request("stations", "ok"), Request("observation", "fail")>>,
           <<Request("stations", "ok"), Request("observation", "ok")>> }
    ELSE { <<>> }

\* whether a run of requests ended with usable data
Obtained(run) == run # <<>> /\ run[Len(run)].res = "ok"

unchanged_inputs == UNCHANGED inputs

(***************************************************************************)
(* main(): temporal detection and geocoding.                               *)
(***************************************************************************)
DetectTemporal ==
    /\ pc = "start"
    /\ LET temporal == is_temporal_query(location) \/ force_hourly
           target   == IF temporal THEN parse_target_time(location, now)
                       ELSE None
       IN  /\ temporal_detected' = temporal
           /\ IF target = ValueError
              THEN /\ target_time' = None
                   /\ exit_status' = "Traceback"
                   /\ pc' = "done"
              ELSE /\ target_time' = target
                   /\ exit_status' = exit_status
                   /\ pc' = "geocode"
    /\ UNCHANGED <<clean_location, lat, lon, use_nws, gridpoint, current_obs,
                   forecast_temp, outputs, fetched, stdout>>
    /\ unchanged_inputs
    /\ UNCHANGED <<details, sent>>

\* a geocoding failure that falls through to the global path
LocationNotFound_FallsBack ==
    /\ stdout' = Append(stdout, "could_not_locate")
    /\ exit_status' = exit_status
    /\ pc' = "wttr"
    /\ UNCHANGED <<lat, lon, use_nws>>

\* the geocoder found nothing: the message and sys.exit(1)
LocationNotFound ==
    /\ stdout' = Append(stdout, "could_not_locate")
    /\ exit_status' = "LocationNotFound"
    /\ pc' = "done"
    /\ UNCHANGED <<lat, lon, use_nws>>

Geocode ==
    /\ pc = "geocode"
    /\ clean_location' = strip_temporal_qualifiers(location)
    /\ sent' = Append(sent, geocode_location(clean_location'))
    /\ \/ /\ fetched' = Append(fetched, Request("geocode", "fail"))
          /\ LocationNotFound
       \/ \E c \in Coordinates :
          /\ fetched' = Append(fetched, Request("geocode", "ok"))
          /\ lat' = c[1]
          /\ lon' = c[2]
          /\ use_nws' = SelectSource(source_pref, c[1], c[2])
          /\ pc' = IF use_nws' THEN "gridpoint" ELSE "wttr"
          /\ UNCHANGED <<stdout, exit_status>>
    /\ UNCHANGED <<temporal_detected, target_time, gridpoint, current_obs,
                   forecast_temp, outputs>>
    /\ unchanged_inputs
    /\ UNCHANGED details

(***************************************************************************)
(* main(): the regional path.                                              *)
(***************************************************************************)
\* a gridpoint failure that warns and returns without the global path
GridpointUnavailable_NoFallback ==
    /\ stdout' = Append(stdout, "warn_gridpoint_not_found")
    /\ pc' = "done"
    /\ UNCHANGED gridpoint

\* no gridpoint: the warning, then the global path
GridpointUnavailable ==
    /\ stdout' = Append(stdout, "warn_gridpoint_not_found")
    /\ pc' = "wttr"
    /\ UNCHANGED gridpoint

FetchGridpoint ==
    /\ pc = "gridpoint"
    /\ \/ /\ fetched' = Append(fetched, Request("gridpoint", "fail"))
          /\ GridpointUnavailable
       \/ \E g \in Gridpoints :
          /\ fetched' = Append(fetched, Request("gridpoint", "ok"))
          /\ gridpoint' = g
          /\ pc' = IF show_current THEN "observation" ELSE ForecastStage
          /\ UNCHANGED stdout
    /\ UNCHANGED <<temporal_detected, target_time, clean_location, lat, lon,
                   use_nws, current_obs, forecast_temp, outputs, exit_status>>
    /\ unchanged_inputs
    /\ UNCHANGED <<details, sent>>

StationObservation ==
    /\ pc = "observation"
    /\ \E run \in StationObservationRuns :
          /\ fetched' = fetched \o run
          /\ current_obs' = IF Obtained(run) THEN Observation ELSE None
    /\ pc' = ForecastStage
    /\ UNCHANGED <<temporal_detected, target_time, clean_location, lat, lon,
                   use_nws, gridpoint, forecast_temp, outputs, stdout, exit_status>>
    /\ unchanged_inputs
    /\ UNCHANGED <<details, sent>>

\* if hourly_forecast:
HourlyUsable(r) == r # "fail"

\* format_hourly_output: the hours, or with no period to show the note
\* "No hourly data available" (a target time given) or the bare header
format_hourly_output(r) ==
    IF r = "ok" THEN "hourly"
    ELSE IF target_time # None THEN "hourly_no_data"
    ELSE "hourly_header_only"

\* the hourly forecast is used: its block is appended
HourlyPresented(r) ==
    /\ forecast_temp' =
          IF show_current /\ current_obs # None /\ r = "ok"
          THEN Temperature ELSE forecast_temp
    /\ outputs' = Append(outputs, format_hourly_output(r))
    /\ pc' = AfterForecast

\* an unusable hourly forecast that skips the regular forecast
HourlyFallback_Skipped ==
    /\ pc' = AfterForecast
    /\ UNCHANGED <<forecast_temp, outputs>>

\* the hourly forecast is not usable: fall back to the regular forecast
HourlyFallback ==
    /\ pc' = "forecast"
    /\ UNCHANGED <<forecast_temp, outputs>>

HourlyForecast ==
    /\ pc = "hourly"
    /\ IF gridpoint.forecast
       THEN \E r \in {"fail", "empty", "ok"} :
               /\ fetched' = Append(fetched, Request("hourly", r))
               /\ IF HourlyUsable(r) THEN HourlyPresented(r) ELSE HourlyFallback
       ELSE /\ fetched' = fetched
            /\ HourlyFallback
    /\ UNCHANGED <<temporal_detected, target_time, clean_location, lat, lon,
                   use_nws, gridpoint, current_obs, stdout, exit_status>>
    /\ unchanged_inputs
    /\ UNCHANGED <<details, sent>>

Forecast ==
    /\ pc = "forecast"
    /\ IF gridpoint.forecast
       THEN \E r \in {"fail", "ok"} :
               /\ fetched' = Append(fetched, Request("forecast", r))
               /\ pc' = IF r = "ok" THEN "alerts" ELSE AfterForecast
       ELSE /\ fetched' = fetched
            /\ pc' = AfterForecast
    /\ UNCHANGED <<temporal_detected, target_time, clean_location, lat, lon,
                   use_nws, gridpoint, current_obs, forecast_temp, outputs, stdout,
                   exit_status>>
    /\ unchanged_inputs
    /\ UNCHANGED <<details, sent>>

\* the forecast was obtained: its alerts, then the forecast block
Alerts ==
    /\ pc = "alerts"
    /\ \E run \in AlertsRuns :
          /\ fetched' = fetched \o run
          /\ outputs' =
                IF Obtained(run)
                THEN outputs \o <<"forecast_alert_active", "alerts">>
                ELSE Append(outputs, "forecast")
    /\ forecast_temp' =
          IF show_current /\ current_obs # None THEN Temperature
          ELSE forecast_temp
    /\ pc' = IF ~temporal_detected /\ IsWinterQuery(location)
             THEN "griddata" ELSE AfterForecast
    /\ UNCHANGED <<temporal_detected, target_time, clean_location, lat, lon,
                   use_nws, gridpoint, current_obs, stdout, exit_status>>
    /\ unchanged_inputs
    /\ UNCHANGED <<details, sent>>

GridData ==
    /\ pc = "griddata"
    /\ IF gridpoint.forecast
       THEN \E r \in {"fail", "ok"} :
               fetched' = Append(fetched, Request("griddata", r))
       ELSE fetched' = fetched
    /\ outputs' = Append(outputs, "accumulations")
    /\ pc' = AfterForecast
    /\ UNCHANGED <<temporal_detected, target_time, clean_location, lat, lon,
                   use_nws, gridpoint, current_obs, forecast_temp, stdout, exit_status>>
    /\ unchanged_inputs
    /\ UNCHANGED <<details, sent>>

\* the observation block, inserted after the first block, or its marker
CurrentObservation ==
    /\ pc = "current"
    /\ outputs' =
          IF current_obs # None
          THEN ListInsert(outputs, 1,
                          IF forecast_temp # None THEN "observation_vs_forecast"
                          ELSE "observation")
          ELSE outputs \o <<"observation_header", "observation_unavailable">>
    /\ pc' = AfterCurrent
    /\ UNCHANGED <<temporal_detected, target_time, clean_location, lat, lon,
                   use_nws, gridpoint, current_obs, forecast_temp, fetched, stdout,
                   exit_status>>
    /\ unchanged_inputs
    /\ UNCHANGED <<details, sent>>

\* an AQI block put in front of the blocks gathered so far
AirNow_Prepended ==
    /\ pc = "aqi"
    /\ \E rc \in {"fail", "ok"} : \E rf \in {"fail", "ok"} :
          /\ fetched' = fetched \o <<Request("airnow_current", rc),
                                     Request("airnow_forecast", rf)>>
          /\ outputs' = <<IF rc = "ok" \/ rf = "ok" THEN "aqi"
                          ELSE "aqi_header_only">> \o outputs
    /\ pc' = AfterAqi
    /\ UNCHANGED <<temporal_detected, target_time, clean_location, lat, lon,
                   use_nws, gridpoint, current_obs, forecast_temp, stdout, exit_status>>
    /\ unchanged_inputs
    /\ UNCHANGED <<details, sent>>

AirNow ==
    /\ pc = "aqi"
    /\ \E rc \in {"fail", "ok"} : \E rf \in {"fail", "ok"} :
          /\ fetched' = fetched \o <<Request("airnow_current", rc),
                                     Request("airnow_forecast", rf)>>
          /\ outputs' = Append(outputs,
                               IF rc = "ok" \/ rf = "ok" THEN "aqi"
                               ELSE "aqi_header_only")
    /\ pc' = AfterAqi
    /\ UNCHANGED <<temporal_detected, target_time, clean_location, lat, lon,
                   use_nws, gridpoint, current_obs, forecast_temp, stdout, exit_status>>
    /\ unchanged_inputs
    /\ UNCHANGED <<details, sent>>

Astronomical ==
    /\ pc = "astro"
    /\ outputs' = IF gridpoint.astronomicalData THEN Append(outputs, "astro")
                  ELSE outputs
    /\ pc' = AfterAstro
    /\ UNCHANGED <<temporal_detected, target_time, clean_location, lat, lon,
                   use_nws, gridpoint, current_obs, forecast_temp, fetched, stdout,
                   exit_status>>
    /\ unchanged_inputs
    /\ UNCHANGED <<details, sent>>

\* a TAF request that is issued once more after it failed
TafRuns_Retried ==
    IF gridpoint.observationStations
    THEN { <<Request("taf", "ok")>> }
         \cup { <<Request("taf", "fail"), Request("taf", r)>> :
                   r \in {"fail", "ok"} }
    ELSE { <<>> }

\* get_aviation_taf: the requests it issues
TafRuns ==
    IF gridpoint.observationStations
    THEN { <<Request("taf", r)>> : r \in {"fail", "ok"} }
    ELSE { <<>> }

AviationTaf ==
    /\ pc = "taf"
    /\ \E run \in TafRuns :
          /\ fetched' = fetched \o run
          /\ outputs' =
                IF Obtained(run) THEN Append(outputs, "taf")
                ELSE outputs \o <<"taf_header", "", "taf_unavailable">>
    /\ pc' = AfterTaf
    /\ UNCHANGED <<temporal_detected, target_time, clean_location, lat, lon,
                   use_nws, gridpoint, current_obs, forecast_temp, stdout, exit_status>>
    /\ unchanged_inputs
    /\ UNCHANGED <<details, sent>>

\* get_fire_weather: the requests it issues
FireRuns ==
    IF gridpoint.fireWeatherZone
    THEN { <<Request("fire", r)>> : r \in {"fail", "ok"} }
    ELSE { <<>> }

\* get_fire_weather, then check_fire_alerts, which asks for the alerts itself
FireWeather ==
    /\ pc = "fire"
    /\ \E run \in FireRuns : \E fire_alerts \in AlertsRuns :
          /\ fetched' = fetched \o run \o fire_alerts
          /\ outputs' = Append(outputs,
                               IF Obtained(run) THEN "fire"
                               ELSE "fire_unavailable")
    /\ pc' = AfterFire
    /\ UNCHANGED <<temporal_detected, target_time, clean_location, lat, lon,
                   use_nws, gridpoint, current_obs, forecast_temp, stdout, exit_status>>
    /\ unchanged_inputs
    /\ UNCHANGED <<details, sent>>

\* a regional path that is never taken to have produced output
RegionalHasOutput_Never(outs) ==
    FALSE

\* if outputs:
RegionalHasOutput(outs) == outs # <<>>

\* the end of the regional path: print and return, or warn and fall back
FinishRegional ==
    /\ pc = "finish"
    /\ IF RegionalHasOutput(outputs)
       THEN /\ stdout' = stdout \o outputs
            /\ exit_status' = "ok"
            /\ pc' = "done"
       ELSE /\ stdout' = Append(stdout, "warn_nws_unavailable")
            /\ exit_status' = exit_status
            /\ pc' = "wttr"
    /\ UNCHANGED <<temporal_detected, target_time, clean_location, lat, lon,
                   use_nws, gridpoint, current_obs, forecast_temp, outputs, fetched>>
    /\ unchanged_inputs
    /\ UNCHANGED <<details, sent>>

(***************************************************************************)
(* main(): the global path.                                                *)
(***************************************************************************)
\* if show_aqi and not use_nws:
AqiNoteNeeded == show_aqi /\ ~use_nws

\* a test that wants both global answers
WttrHasData_Both(rf, rc) == rf = "ok" /\ rc = "ok"

\* if forecast_text or current:
WttrHasData(rf, rc) == rf = "ok" \/ rc = "ok"

Wttr ==
    /\ pc = "wttr"
    /\ \E rf \in {"fail", "ok"} : \E rc \in {"fail", "ok"} :
          LET noted == IF AqiNoteNeeded
                       THEN outputs \o <<"aqi_note_header", "", "aqi_note", "">>
                       ELSE outputs
          IN  /\ fetched' = fetched \o <<Request("wttr_forecast", rf),
                                         Request("wttr_current", rc)>>
              /\ sent' = sent \o <<get_wttr("wttr_forecast", location),
                                   get_wttr("wttr_current", location)>>
              /\ IF WttrHasData(rf, rc)
                 THEN /\ outputs' = Append(noted, "wttr")
                      /\ stdout' = stdout \o outputs'
                      /\ exit_status' = "ok"
                 ELSE /\ outputs' = noted
                      /\ stdout' = Append(stdout, "unable_to_fetch")
                      /\ exit_status' = "NoWeatherDataAvailable"
    /\ pc' = "done"
    /\ UNCHANGED <<temporal_detected, target_time, clean_location, lat, lon,
                   use_nws, gridpoint, current_obs, forecast_temp>>
    /\ unchanged_inputs
    /\ UNCHANGED details

(***************************************************************************)
(* One invocation of the script.                                           *)
(***************************************************************************)
Next ==
    \/ DetectTemporal
    \/ Geocode
    \/ FetchGridpoint
    \/ StationObservation
    \/ HourlyForecast
    \/ Forecast
    \/ Alerts
    \/ GridData
    \/ CurrentObservation
    \/ AirNow
    \/ Astronomical
    \/ AviationTaf
    \/ FireWeather
    \/ FinishRegional
    \/ Wttr

Spec == Init /\ [][Next]_vars

(***************************************************************************)
(* The source selection on its own: main() from "Step 2" with every        *)
(* coordinate around the regional box and every override.                  *)
(***************************************************************************)
\* how far around the box the coordinates are drawn
Margin == 2

SelectLats == (24 - Margin)..(49 + Margin)
SelectLons == (-125 - Margin)..(-66 + Margin)

\* the values of --source: the three known ones and an unknown one
SelectPrefs == SourcePrefs \cup {"noaa"}

\* the variables that a specification of one function leaves at rest
AtRest ==
    /\ show_aqi = FALSE /\ force_hourly = FALSE /\ show_current = FALSE
    /\ show_astro = FALSE /\ show_taf = FALSE /\ show_fire = FALSE
    /\ gridpoint = None /\ current_obs = None /\ forecast_temp = None
    /\ outputs = <<>> /\ fetched = <<>> /\ sent = <<>> /\ stdout = <<>>
    /\ exit_status = "running"

SelectInit ==
    /\ location = Q_Boston_MA
    /\ now = Time(0, 9, 30, 15)
    /\ temporal_detected = FALSE
    /\ target_time = None
    /\ clean_location = strip_temporal_qualifiers(location)
    /\ source_pref \in SelectPrefs
    /\ lat \in SelectLats
    /\ lon \in SelectLons
    /\ use_nws = FALSE
    /\ AtRest
    /\ DetailsAtRest
    /\ pc = "select"

SelectStep ==
    /\ pc = "select"
    /\ use_nws' = SelectSource(source_pref, lat, lon)
    /\ pc' = "selected"
    /\ UNCHANGED <<temporal_detected, target_time, clean_location, lat, lon,
                   gridpoint, current_obs, forecast_temp, outputs, fetched, stdout,
                   exit_status>>
    /\ unchanged_inputs
    /\ UNCHANGED <<details, sent>>

SelectNext == SelectStep

SelectSpec == SelectInit /\ [][SelectNext]_vars

(***************************************************************************)
(* The front of main() on its own: temporal detection, parsing, stripping  *)
(* and geocoding, for place names combined with temporal clauses and for   *)
(* clock readings around the hours the parser compares with.               *)
(***************************************************************************)
P_Boston == <<"B", "o", "s", "t", "o", "n">>
P_Knightdale == <<"K", "n", "i", "g", "h", "t", "d", "a", "l", "e">>
P_Boston_02134 == <<"B", "o", "s", "t", "o", "n", " ", "0", "2", "1", "3", "4">>
P_Route_9 == <<"R", "o", "u", "t", "e", " ", "9">>

PlaceNames == {P_Boston, Q_Boston_MA, P_Knightdale, P_Boston_02134, P_Route_9}

\* " at N" with an am/pm marker, attached, after a space, or missing
ClockNumbers == {<<"3">>, <<"8">>, <<"1", "0">>, <<"1", "2">>}

AmPmMarkers ==
    {<<>>, <<"a", "m">>, <<"p", "m">>, <<"A", "M">>, <<"P", "M">>,
     <<" ", "a", "m">>, <<" ", "p", "m">>, <<" ", "A", "M">>,
     <<" ", "P", "M">>}

AtClauses ==
    { <<" ", "a", "t", " ">> \o n \o m : n \in ClockNumbers, m \in AmPmMarkers }

T_at_8_PM == <<" ", "a", "t", " ", "8", " ", "P", "M">>
T_tomorrow_morning == <<" ">> \o W_tomorrow_morning
T_tomorrow_afternoon == <<" ">> \o W_tomorrow_afternoon
T_tomorrow_night == <<" ">> \o W_tomorrow_night
T_tomorrow == <<" ">> \o W_tomorrow
T_tonight == <<" ">> \o W_tonight
T_this_afternoon == <<" ">> \o W_this_afternoon

DayPartClauses ==
    {T_tomorrow_morning, T_tomorrow_afternoon, T_tomorrow_night, T_tomorrow,
     T_tonight, T_this_afternoon}

\* a clause that is no trailing one: a street address after the number
T_at_5_Main_St == <<" ", "a", "t", " ", "5", " ", "M", "a", "i", "n", " ", "S", "t">>

QueryClauses == AtClauses \cup DayPartClauses \cup {<<>>, T_at_5_Main_St}

QueryTexts == { p \o q : p \in PlaceNames, q \in QueryClauses }

\* datetime.now(): around 15:00 and 20:00, on and off the whole second
ClockReadings ==
    { DateTime(0, h, m, sec, us) :
        h \in {9, 14, 15, 19, 20, 21}, m \in {0, 30}, sec \in {0, 15},
        us \in {0, 1} }

QueryInit ==
    /\ location \in QueryTexts
    /\ now \in ClockReadings
    /\ source_pref = "auto"
    /\ temporal_detected = FALSE
    /\ target_time = None
    /\ clean_location = None
    /\ lat = None
    /\ lon = None
    /\ use_nws = FALSE
    /\ AtRest
    /\ DetailsAtRest
    /\ pc = "start"

QueryNext ==
    \/ DetectTemporal
    \/ Geocode

QuerySpec == QueryInit /\ [][QueryNext]_vars

(***************************************************************************)
(* AlertPrioritizer: calculate_alert_priority and sort_alerts_by_priority, *)
(* over every list of up to MaxAlerts alerts.                              *)
(***************************************************************************)
\* the longest list of alerts
MaxAlerts == 3

ALERT_SEVERITY_WEIGHTS(label) ==
    CASE label = "Extreme" -> 4
      [] label = "Severe" -> 3
      [] label = "Moderate" -> 2
      [] label = "Minor" -> 1
      [] OTHER -> 0

ALERT_URGENCY_WEIGHTS(label) ==
    CASE label = "Immediate" -> 3
      [] label = "Expected" -> 2
      [] label = "Future" -> 1
      [] OTHER -> 0

ALERT_CERTAINTY_WEIGHTS(label) ==
    CASE label = "Observed" -> 3
      [] label = "Likely" -> 2
      [] label = "Possible" -> 1
      [] OTHER -> 0

calculate_alert_priority(alert_props) ==
    ALERT_SEVERITY_WEIGHTS(alert_props.severity)
        + ALERT_URGENCY_WEIGHTS(alert_props.urgency)
        + ALERT_CERTAINTY_WEIGHTS(alert_props.certainty)

\* an element put before the ones of equal priority
InsertByPriority_BeforeEquals(done, a) ==
    LET ahead == Cardinality({i \in 1..Len(done) :
                     calculate_alert_priority(done[i])
                         > calculate_alert_priority(a)})
    IN  SubSeq(done, 1, ahead) \o <<a>> \o SubSeq(done, ahead + 1, Len(done))

\* one step of the stable sort, highest first: the element goes behind
\* every element of the same or a higher priority
InsertByPriority(done, a) ==
    LET ahead == Cardinality({i \in 1..Len(done) :
                     calculate_alert_priority(done[i])
                         >= calculate_alert_priority(a)})
    IN  SubSeq(done, 1, ahead) \o <<a>> \o SubSeq(done, ahead + 1, Len(done))

\* sorted(alerts, key=get_priority, reverse=True) of the first n alerts
RECURSIVE SortedPrefix(_, _)
SortedPrefix(list, n) ==
    IF n = 0 THEN <<>>
    ELSE InsertByPriority(SortedPrefix(list, n - 1), list[n])

sort_alerts_by_priority(list) == SortedPrefix(list, Len(list))

\* the labels of the answers: in the tables, "Unknown", and outside them
Severities == {"Extreme", "Minor", "Unknown"}
Urgencies == {"Immediate", "Future", "Past"}
Certainties == {"Observed", "Possible"}

AlertLabels ==
    [severity : Severities, urgency : Urgencies, certainty : Certainties]

\* the lists of n alerts: the id of an alert is its place in the answer
AlertLists(n) ==
    { [k \in 1..n |-> [id |-> k,
                       severity |-> c[k].severity,
                       urgency |-> c[k].urgency,
                       certainty |-> c[k].certainty]] :
          c \in [1..n -> AlertLabels] }

\* main() before its first statement
MainAtRest ==
    /\ location = Q_Boston_MA
    /\ now = Time(0, 9, 30, 15)
    /\ source_pref = "auto"
    /\ temporal_detected = FALSE
    /\ target_time = None
    /\ clean_location = None
    /\ lat = None
    /\ lon = None
    /\ use_nws = FALSE
    /\ AtRest

\* what main() has worked out
main_state ==
    <<temporal_detected, target_time, clean_location, lat, lon, use_nws,
      gridpoint, current_obs, forecast_temp, outputs, fetched, sent, stdout,
      exit_status>>

RankInit ==
    /\ MainAtRest
    /\ AccumulationAtRest
    /\ AstronomyAtRest
    /\ formatted_obs = None
    /\ \E n \in 0..MaxAlerts : alerts \in AlertLists(n)
    /\ sorted_alerts = None
    /\ pc = "rank"

RankStep ==
    /\ pc = "rank"
    /\ sorted_alerts' = sort_alerts_by_priority(alerts)
    /\ pc' = "ranked"
    /\ UNCHANGED <<main_state, alerts, accumulation, astronomy, formatted_obs>>
    /\ unchanged_inputs

RankNext == RankStep

RankSpec == RankInit /\ [][RankNext]_vars

(***************************************************************************)
(* AccumulationExtractor: extract_accumulations_from_grid and the fallback *)
(* parse_accumulations_from_text.  A value of a series is a whole number   *)
(* of tenths of its unit (of percent for the probability), a depth in      *)
(* inches a whole number of millionths of an inch.                         *)
(***************************************************************************)
\* the longest series of the grid data
MaxSeries == 9

W_mm == <<"m", "m">>
W_cm == <<"c", "m">>
W_m == <<"m">>
W_new_ == <<"n", "e", "w", " ">>
W_snow_ == <<"s", "n", "o", "w", " ">>
W_accumulation_ ==
    <<"a", "c", "c", "u", "m", "u", "l", "a", "t", "i", "o", "n", " ">>
W_of_ == <<"o", "f", " ">>
W__to_ == <<" ", "t", "o", " ">>
W_dash == <<"-">>
W__inch == <<" ", "i", "n", "c", "h">>
W_precipitation_amount ==
    <<"p", "r", "e", "c", "i", "p", "i", "t", "a", "t", "i", "o", "n", " ",
      "a", "m", "o", "u", "n", "t">>
W_s == <<"s">>
W_space == <<" ">>
W_between_ == <<"b", "e", "t", "w", "e", "e", "n", " ">>
W_dot == <<".">>

\* the unit codes of the series; a series without 'uom' has ''
U_mm == <<"w", "m", "o", "U", "n", "i", "t", ":", "m", "m">>
U_cm == <<"w", "m", "o", "U", "n", "i", "t", ":", "c", "m">>
U_m == <<"w", "m", "o", "U", "n", "i", "t", ":", "m">>

\* a Python value with its type
Number(n) == [type |-> "number", value |-> n]

Str(s) == [type |-> "str", value |-> s]

\* the dead twin of to_inches at module level, which lowers the unit first
convert_to_inches(value, unit) ==
    IF value <= 0 THEN 0
    ELSE LET unit_lower == Lower(unit)
         IN  IF Contains(unit_lower, W_mm) THEN value * 3937
             ELSE IF Contains(unit_lower, W_cm) THEN value * 39370
             ELSE IF Contains(unit_lower, W_m) /\ ~Contains(unit_lower, W_mm)
                  THEN value * 3937000
             ELSE value * 100000

\* a depth taken as inches whatever its unit
to_inches_AsGiven(value, unit) ==
    value * 100000

\* value * 0.03937, value * 0.3937, value * 39.37, or the value itself
to_inches(value, unit) ==
    IF value <= 0 THEN 0
    ELSE IF Contains(unit, W_mm) THEN value * 3937
    ELSE IF Contains(unit, W_cm) THEN value * 39370
    ELSE IF Contains(unit, W_m) THEN value * 3937000
    ELSE value * 100000

\* round(inches, 1) and round(inches, 2): to the nearest multiple of step,
\* a tie to the even one
Round(inches, step) ==
    LET q == inches \div step
        r == inches % step
    IN  IF 2 * r > step \/ (2 * r = step /\ q % 2 = 1)
        THEN (q + 1) * step
        ELSE q * step

\* dt.strftime('%a %I%p').lower()
WeekdayNames == <<"mon", "tue", "wed", "thu", "fri", "sat", "sun">>

strftime_a_I_p(dt) ==
    [a |-> WeekdayNames[dt.weekday + 1],
     I |-> IF dt.hour % 12 = 0 THEN 12 ELSE dt.hour % 12,
     p |-> IF dt.hour < 12 THEN "am" ELSE "pm"]

\* valid_time.split('/')[0], parsed
parse_iso_datetime(valid_time) == valid_time.start

\* item.get('value', 0)
get_value(item) == IF "value" \in DOMAIN item THEN item.value ELSE 0

\* data.get('values', []) and data.get('uom', '')
get_values(data) == IF "values" \in DOMAIN data THEN data.values ELSE <<>>

get_uom(data) == IF "uom" \in DOMAIN data THEN data.uom ELSE <<>>

\* the whole series instead of its first entries
Head8_All(vals) ==
    vals

\* vals[:8]
Head8(vals) ==
    SubSeq(vals, 1, IF Len(vals) < 8 THEN Len(vals) ELSE 8)

SnowEvents(snow_data) ==
    LET snow_unit == get_uom(snow_data)
        measurable(item) ==
            /\ get_value(item) > 0
            /\ to_inches(get_value(item), snow_unit) >= 100000
        kept == SelectSeq(Head8(get_values(snow_data)), measurable)
    IN  [k \in 1..Len(kept) |->
            [type |-> "Snow",
             amount |-> Number(Round(to_inches(get_value(kept[k]), snow_unit),
                                     100000)),
             unit |-> "inches",
             time |-> strftime_a_I_p(parse_iso_datetime(kept[k].validTime)),
             icon |-> ""]]

IceEvents(ice_data) ==
    LET ice_unit == get_uom(ice_data)
        measurable(item) ==
            /\ get_value(item) > 0
            /\ to_inches(get_value(item), ice_unit) >= 10000
        kept == SelectSeq(Head8(get_values(ice_data)), measurable)
    IN  [k \in 1..Len(kept) |->
            [type |-> "Ice",
             amount |-> Number(Round(to_inches(get_value(kept[k]), ice_unit),
                                     10000)),
             unit |-> "inches",
             time |-> strftime_a_I_p(parse_iso_datetime(kept[k].validTime)),
             icon |-> ""]]

PopEvents(pop_data) ==
    LET likely(item) == get_value(item) >= 30
        kept == SelectSeq(Head8(get_values(pop_data)), likely)
    IN  [k \in 1..Len(kept) |->
            [type |-> "Precipitation Chance",
             amount |-> Number(get_value(kept[k])),
             unit |-> "percent",
             time |-> strftime_a_I_p(parse_iso_datetime(kept[k].validTime)),
             icon |-> ""]]

extract_accumulations_from_grid(grid) ==
    IF grid = None THEN <<>>
    ELSE SnowEvents(grid.snowfallAmount) \o IceEvents(grid.iceAccumulation)
             \o PopEvents(grid.probabilityOfPrecipitation)

\* \d+(?:\.\d+)? at i: its last position, or 0
NumberEnd(s, i) ==
    LET e == DigitRunEnd(s, i)
    IN  IF e < i THEN 0
        ELSE IF MatchAt(s, e + 1, W_dot) /\ DigitRunEnd(s, e + 2) >= e + 2
             THEN DigitRunEnd(s, e + 2)
        ELSE e

\* ((?:\d+(?:\.\d+)?(?: to |-))?\d+(?:\.\d+)?) (?:inch|inches) at i: the
\* last position of the group, or 0
AmountEnd(s, i) ==
    LET e1 == NumberEnd(s, i)
        j == IF e1 = 0 THEN 0
             ELSE IF MatchAt(s, e1 + 1, W__to_) THEN e1 + 5
             ELSE IF MatchAt(s, e1 + 1, W_dash) THEN e1 + 2
             ELSE 0
        e2 == IF j = 0 THEN 0 ELSE NumberEnd(s, j)
    IN  IF e2 > 0 /\ MatchAt(s, e2 + 1, W__inch) THEN e2
        ELSE IF e1 > 0 /\ MatchAt(s, e1 + 1, W__inch) THEN e1
        ELSE 0

\* the position behind the literal w at i if it stands there, else i
Optional(s, i, w) == IF MatchAt(s, i, w) THEN i + Len(w) ELSE i

\* snow_pattern at i: the group, or no match
snow_pattern(s, i) ==
    LET a == Optional(s, i, W_new_)
        b == IF MatchAt(s, a, W_snow_)
             THEN Optional(s, Optional(s, a + 5, W_accumulation_), W_of_)
             ELSE 0
        e == IF b = 0 THEN 0 ELSE AmountEnd(s, b)
    IN  [from |-> b, to |-> e]

\* rain_pattern at i: the group, or no match
rain_pattern(s, i) ==
    LET a == IF MatchAt(s, i, W_precipitation_amount)
             THEN Optional(s, i + Len(W_precipitation_amount), W_s)
             ELSE 0
        b == IF a > 0 /\ MatchAt(s, a, W_space)
             THEN IF MatchAt(s, a + 1, W_of_) THEN a + 4
                  ELSE Optional(s, a + 1, W_between_)
             ELSE 0
        e == IF b = 0 THEN 0 ELSE AmountEnd(s, b)
    IN  [from |-> b, to |-> e]

\* re.findall of the snow pattern (k = 1) or the rain pattern (k = 2) in s,
\* from position i on: the groups of the matches, one after the other
RECURSIVE FindAllFrom(_, _, _)
FindAllFrom(k, s, i) ==
    IF i > Len(s) THEN <<>>
    ELSE LET m == IF k = 1 THEN snow_pattern(s, i) ELSE rain_pattern(s, i)
         IN  IF m.to > 0
             THEN <<SubSeq(s, m.from, m.to)>>
                      \o FindAllFrom(k, s, m.to + Len(W__inch) + 1)
             ELSE FindAllFrom(k, s, i + 1)

\* the events of one period: the snow matches, then the rain matches
PeriodEvents(period) ==
    LET desc == Lower(period.detailedForecast)
        snow_matches == FindAllFrom(1, desc, 1)
        rain_matches == FindAllFrom(2, desc, 1)
    IN  [k \in 1..Len(snow_matches) |->
            [type |-> "Snow", amount |-> Str(snow_matches[k]),
             time |-> period.name, icon |-> "snowflake"]]
        \o
        [k \in 1..Len(rain_matches) |->
            [type |-> "Rain", amount |-> Str(rain_matches[k]),
             time |-> period.name, icon |-> "rain cloud"]]

\* the events of the first n periods
RECURSIVE ParsedPrefix(_, _)
ParsedPrefix(periods, n) ==
    IF n = 0 THEN <<>>
    ELSE ParsedPrefix(periods, n - 1) \o PeriodEvents(periods[n])

\* for period in periods[:4]
parse_accumulations_from_text(periods) ==
    ParsedPrefix(periods, IF Len(periods) < 4 THEN Len(periods) ELSE 4)

\* the forecast texts of the periods
D_snow_2_to_4 ==
    <<"N", "e", "w", " ", "s", "n", "o", "w", " ", "a", "c", "c", "u", "m",
      "u", "l", "a", "t", "i", "o", "n", " ", "o", "f", " ", "2", " ", "t",
      "o", " ", "4", " ", "i", "n", "c", "h", "e", "s", " ", "p", "o", "s",
      "s", "i", "b", "l", "e", ".">>
D_rain_half_inch ==
    <<"R", "a", "i", "n", ".", " ", "N", "e", "w", " ", "p", "r", "e", "c",
      "i", "p", "i", "t", "a", "t", "i", "o", "n", " ", "a", "m", "o", "u",
      "n", "t", "s", " ", "b", "e", "t", "w", "e", "e", "n", " ", "0", ".",
      "5", "-", "1", " ", "i", "n", "c", "h", " ", "p", "o", "s", "s", "i",
      "b", "l", "e", ".">>
D_sunny ==
    <<"S", "u", "n", "n", "y", ",", " ", "w", "i", "t", "h", " ", "a", " ",
      "h", "i", "g", "h", " ", "n", "e", "a", "r", " ", "4", "5", ".">>
D_snow_and_rain ==
    <<"S", "n", "o", "w", " ", "a", "c", "c", "u", "m", "u", "l", "a", "t",
      "i", "o", "n", " ", "o", "f", " ", "1", " ", "i", "n", "c", "h", ".",
      " ", "P", "r", "e", "c", "i", "p", "i", "t", "a", "t", "i", "o", "n",
      " ", "a", "m", "o", "u", "n", "t", "s", " ", "o", "f", " ", "0", ".",
      "2", "5", " ", "i", "n", "c", "h", "e", "s", ".">>
D_less_than ==
    <<"N", "e", "w", " ", "p", "r", "e", "c", "i", "p", "i", "t", "a", "t",
      "i", "o", "n", " ", "a", "m", "o", "u", "n", "t", "s", " ", "o", "f",
      " ", "l", "e", "s", "s", " ", "t", "h", "a", "n", " ", "a", " ", "t",
      "e", "n", "t", "h", " ", "o", "f", " ", "a", "n", " ", "i", "n", "c",
      "h", " ", "p", "o", "s", "s", "i", "b", "l", "e", ".">>

Period(name, text) == [name |-> name, detailedForecast |-> text]

PeriodLists ==
    { <<>>,
      <<Period("Today", D_sunny)>>,
      <<Period("Tonight", D_snow_2_to_4), Period("Monday", D_sunny)>>,
      <<Period("Today", D_snow_and_rain), Period("Tonight", D_rain_half_inch)>>,
      <<Period("Today", D_less_than), Period("Tonight", D_sunny),
        Period("Monday", D_sunny), Period("Monday Night", D_sunny),
        Period("Tuesday", D_snow_2_to_4)>> }

\* the values of the series: depths in tenths of the unit, chances in percent
SnowValues == <<20, 500, 0, 26, 25, -10, 1>>
IceValues == <<2, 3, 0, 50>>
PopValues == <<29, 30, 0, 65>>

\* the k-th entry of a series, the entries six hours apart from Monday
\* 06:00 on; every (Len(values) + 1)-th entry has no value
Entry(values, k, off) ==
    LET valid_time == [start |-> [weekday |-> ((6 * k) \div 24) % 7,
                                  hour |-> (6 * k) % 24],
                       duration |-> "PT6H"]
        at == (k + off) % (Len(values) + 1)
    IN  IF at = 0 THEN [validTime |-> valid_time]
        ELSE [value |-> values[at], validTime |-> valid_time]

SeriesLengths == {0, 1, MaxSeries - 1, MaxSeries}

SeriesOf(values) ==
    { [k \in 1..n |-> Entry(values, k, off)] :
          n \in SeriesLengths, off \in 0..2 }

GridDatas ==
    [snowfallAmount :
         [uom : {U_mm, U_cm, U_m}, values : SeriesOf(SnowValues)]
             \cup [values : SeriesOf(SnowValues)],
     iceAccumulation :
         [uom : {U_mm}, values : SeriesOf(IceValues)]
             \cup [values : SeriesOf(IceValues)],
     probabilityOfPrecipitation : [values : SeriesOf(PopValues)]]

AccumInit ==
    /\ MainAtRest
    /\ RankingAtRest
    /\ AstronomyAtRest
    /\ formatted_obs = None
    /\ grid_data \in GridDatas \cup {None}
    /\ forecast_periods \in PeriodLists
    /\ accumulations = None
    /\ parsed = None
    /\ pc = "extract"

\* accums = extract_accumulations_from_grid(grid_data)
Extract ==
    /\ pc = "extract"
    /\ accumulations' = extract_accumulations_from_grid(grid_data)
    /\ pc' = "format"
    /\ UNCHANGED <<main_state, ranking, astronomy, formatted_obs, grid_data,
                   forecast_periods, parsed>>
    /\ unchanged_inputs

\* format_accumulations_output: with no event of the grid, the events of
\* the forecast text
FormatAccumulations ==
    /\ pc = "format"
    /\ parsed' = IF accumulations = <<>> /\ forecast_periods # <<>>
                 THEN parse_accumulations_from_text(forecast_periods)
                 ELSE None
    /\ pc' = "formatted"
    /\ UNCHANGED <<main_state, ranking, astronomy, formatted_obs, grid_data,
                   forecast_periods, accumulations>>
    /\ unchanged_inputs

AccumNext == Extract \/ FormatAccumulations

AccumSpec == AccumInit /\ [][AccumNext]_vars

(***************************************************************************)
(* AstronomicalCalculator: calculate_moon_phase, over the days from        *)
(* 2000-01-06 on.  Times are whole ten-thousandths of a minute.            *)
(***************************************************************************)
\* the last day, in days since 2000-01-06
MaxDays == 120

\* datetime.datetime(2000, 1, 6, 18, 14, 0), counted from 2000-01-06 00:00
known_new_moon == (18 * 60 + 14) * 10000

\* 29.53059 days: 42524.0496 minutes
lunar_cycle == 425240496

\* int((days_into_cycle / lunar_cycle) * 8) % 8 for the midnight of the day;
\* an eighth of the cycle is a whole number of time units
phase_of(day) ==
    LET diff == day * 1440 * 10000 - known_new_moon
        days_into_cycle == diff % lunar_cycle
    IN  (days_into_cycle \div (lunar_cycle \div 8)) % 8

Abs(n) == IF n < 0 THEN -n ELSE n

\* (1 - abs(phase - 4) / 4) * 100, and (2 - abs(phase - 4) / 4) * 100 for a
\* phase above 4
illumination_of(phase) ==
    IF phase > 4 THEN 200 - 25 * Abs(phase - 4)
    ELSE 100 - 25 * Abs(phase - 4)

calculate_moon_phase(day) ==
    [phase |-> phase_of(day), illumination |-> illumination_of(phase_of(day))]

MoonInit ==
    /\ MainAtRest
    /\ RankingAtRest
    /\ AccumulationAtRest
    /\ formatted_obs = None
    /\ date \in 0..MaxDays
    /\ moon_info = None
    /\ pc = "moon"

\* moon_info = calculate_moon_phase(today)
MoonStep ==
    /\ pc = "moon"
    /\ moon_info' = calculate_moon_phase(date)
    /\ pc' = "mooned"
    /\ UNCHANGED <<main_state, ranking, accumulation, formatted_obs, date>>
    /\ unchanged_inputs

MoonNext == MoonStep

MoonSpec == MoonInit /\ [][MoonNext]_vars

(***************************************************************************)
(* ObservationComparator: the temperature line of format_observation.  An  *)
(* observed temperature is a whole number of tenths of a degree Celsius, a *)
(* temperature in Fahrenheit a whole number of hundredths of a degree.     *)
(***************************************************************************)
\* the highest observed temperature, in tenths of a degree Celsius
MaxTempC == 260

\* (celsius * 9/5) + 32
convert_c_to_f(celsius) == celsius * 18 + 3200

\* diff = round(temp_f - forecast_temp) and the three cases on it
Compare(temp_f, forecast) ==
    LET diff == Round(temp_f - forecast * 100, 100)
    IN  IF Abs(diff) <= 200 THEN [label |-> "matches forecast"]
        ELSE IF diff > 0 THEN [label |-> "warmer than forecast", by |-> diff]
        ELSE [label |-> "cooler than forecast", by |-> Abs(diff)]

\* the line "Actually ..." of the block, if there is one
format_observation(obs, forecast) ==
    IF "value" \notin DOMAIN obs.temperature THEN [kind |-> "block"]
    ELSE LET temp_f == convert_c_to_f(obs.temperature.value)
         IN  IF forecast = None
             THEN [kind |-> "block", temp |-> Round(temp_f, 100),
                   comparison |-> None]
             ELSE [kind |-> "block", temp |-> Round(temp_f, 100),
                   comparison |-> Compare(temp_f, forecast.value)]

\* the observations of the station and the temperatures of the forecast
Observations ==
    { [kind |-> "observation", temperature |-> [value |-> c]] :
          c \in (MaxTempC - 100)..MaxTempC }
        \cup { [kind |-> "observation", temperature |-> [unitCode |-> "degC"]] }

ForecastTemperatures ==
    { [kind |-> "temperature", value |-> f] : f \in {65, 67, 70, 72} }
        \cup {None}

ObsInit ==
    /\ location = Q_Boston_MA
    /\ now = Time(0, 9, 30, 15)
    /\ source_pref = "auto"
    /\ temporal_detected = FALSE
    /\ target_time = None
    /\ clean_location = None
    /\ lat = None
    /\ lon = None
    /\ use_nws = TRUE
    /\ show_aqi = FALSE /\ force_hourly = FALSE /\ show_current = TRUE
    /\ show_astro = FALSE /\ show_taf = FALSE /\ show_fire = FALSE
    /\ gridpoint = None
    /\ outputs = <<>> /\ fetched = <<>> /\ sent = <<>> /\ stdout = <<>>
    /\ exit_status = "running"
    /\ RankingAtRest
    /\ AccumulationAtRest
    /\ AstronomyAtRest
    /\ current_obs \in Observations
    /\ forecast_temp \in ForecastTemperatures
    /\ formatted_obs = None
    /\ pc = "format_observation"

\* formatted_obs = format_observation(current_obs, forecast_temp)
FormatObservation ==
    /\ pc = "format_observation"
    /\ formatted_obs' = format_observation(current_obs, forecast_temp)
    /\ pc' = "observation_formatted"
    /\ UNCHANGED <<main_state, ranking, accumulation, astronomy>>
    /\ unchanged_inputs

ObsNext == FormatObservation

ObsSpec == ObsInit /\ [][ObsNext]_vars

(***************************************************************************)
(* Vocabulary of the properties.                                           *)
(***************************************************************************)
Fetched(ep) == \E k \in 1..Len(fetched) : fetched[k].ep = ep

FetchedWith(ep, res) == \E k \in 1..Len(fetched) : fetched[k] = Request(ep, res)

Printed(item) == \E k \in 1..Len(stdout) : stdout[k] = item

\* the lines main() prints that are no facet output
Messages ==
    {"could_not_locate", "warn_gridpoint_not_found", "warn_nws_unavailable",
     "unable_to_fetch"}

NoFacetPrinted == \A k \in 1..Len(stdout) : stdout[k] \in Messages

RegionalEndpoints ==
    {"hourly", "forecast", "alerts", "griddata", "stations", "observation",
     "airnow_current", "airnow_forecast", "taf", "fire"}

GlobalContacted == Fetched("wttr_forecast") \/ Fetched("wttr_current")

ForecastPrinted == Printed("forecast") \/ Printed("forecast_alert_active")

ObservationPrinted ==
    Printed("observation") \/ Printed("observation_vs_forecast")

Done == pc = "done"

\* the run printed the blocks of the regional path
RegionalOutput ==
    Done /\ gridpoint # None /\ exit_status = "ok" /\ ~Printed("wttr")

(***************************************************************************)
(* C1..C10: the fetch chain and its fallbacks.                             *)
(***************************************************************************)
\* C1: once geocoding has failed the run is over with LocationNotFound:
\* the geocoder's request is the last one issued, and nothing but the
\* failure message is printed.
C1_GeocodeFailureIsFatal ==
    FetchedWith("geocode", "fail") =>
        /\ Done
        /\ exit_status = "LocationNotFound"
        /\ fetched[Len(fetched)].ep = "geocode"
        /\ Len(fetched) = 1
        /\ outputs = <<>>
        /\ NoFacetPrinted

C1_Witness ==
    /\ Done
    /\ FetchedWith("geocode", "fail")
    /\ temporal_detected /\ show_aqi /\ show_fire /\ show_current
    /\ source_pref = "nws"

\* C2: for a temporal query with a gridpoint, the forecast endpoint is only
\* asked after the hourly one; a failed hourly request is followed by a
\* forecast request, and if that one succeeds the forecast block is printed
\* and the global provider is never asked.
C2_HourlyFailureFallsBackToForecast ==
    temporal_detected /\ gridpoint # None =>
        /\ \A k \in 1..Len(fetched) :
              fetched[k].ep = "forecast" =>
                  \E j \in 1..(k - 1) : fetched[j].ep = "hourly"
        /\ Done /\ FetchedWith("hourly", "fail") =>
              /\ Fetched("forecast")
              /\ FetchedWith("forecast", "ok") =>
                    /\ exit_status = "ok"
                    /\ ForecastPrinted
                    /\ ~GlobalContacted

C2_Witness ==
    /\ Done
    /\ temporal_detected
    /\ location = Q_Fairbanks_at_3am
    /\ FetchedWith("hourly", "fail")
    /\ FetchedWith("forecast", "ok")
    /\ ForecastPrinted

\* C3 (as claimed): a temporal query whose hourly request succeeds with an
\* empty list of periods is answered from the standard forecast.
C3_EmptyHourlyFallsBackToForecast ==
    Done /\ temporal_detected /\ gridpoint # None
         /\ FetchedWith("hourly", "empty") =>
        /\ Fetched("forecast")
        /\ FetchedWith("forecast", "ok") => ForecastPrinted

\* every request of the regional path failed and no astronomical data came
\* with the gridpoint
ZeroUsableFacets ==
    /\ gridpoint # None
    /\ \A k \in 1..Len(fetched) :
          fetched[k].ep \in RegionalEndpoints => fetched[k].res = "fail"
    /\ ~gridpoint.astronomicalData

\* C4 (as claimed): with a gridpoint and zero usable facets the run asks the
\* global provider and prints the global result, whatever facets were asked.
C4_ZeroFacetsFallBackToGlobal ==
    Done /\ ZeroUsableFacets =>
        /\ Fetched("wttr_forecast")
        /\ Fetched("wttr_current")
        /\ exit_status = "ok" => Printed("wttr")

\* C5: after a failed gridpoint request no regional endpoint is asked, the
\* warning is printed, both global endpoints are asked, and the run ends
\* with the global block whenever one of them answers.
C5_GridpointFailureFallsBackToGlobal ==
    FetchedWith("gridpoint", "fail") =>
        /\ use_nws
        /\ \A k \in 1..Len(fetched) : fetched[k].ep \notin RegionalEndpoints
        /\ Printed("warn_gridpoint_not_found")
        /\ pc \in {"wttr", "done"}
        /\ Done =>
              /\ Fetched("wttr_forecast")
              /\ Fetched("wttr_current")
              /\ FetchedWith("wttr_forecast", "ok")
                    \/ FetchedWith("wttr_current", "ok") =>
                       exit_status = "ok" /\ Printed("wttr")

C5_Witness ==
    /\ Done
    /\ FetchedWith("gridpoint", "fail")
    /\ FetchedWith("wttr_forecast", "fail")
    /\ FetchedWith("wttr_current", "ok")
    /\ exit_status = "ok"
    /\ Printed("wttr")

\* C6 (as claimed): in a regional output every facet whose endpoint the
\* gridpoint names has been asked for, and is printed when its request
\* succeeded, whatever happened to the other facets.
C6_FacetsAreIndependent ==
    RegionalOutput =>
        /\ gridpoint.forecast =>
              /\ Fetched("forecast") \/ Fetched("hourly")
              /\ FetchedWith("forecast", "ok") => ForecastPrinted
              /\ FetchedWith("hourly", "ok") => Printed("hourly")
        /\ gridpoint.forecastZone =>
              /\ Fetched("alerts")
              /\ FetchedWith("alerts", "ok") => Printed("alerts")
        /\ show_current /\ gridpoint.observationStations =>
              /\ Fetched("stations")
              /\ FetchedWith("observation", "ok") => ObservationPrinted
        /\ show_aqi =>
              /\ Fetched("airnow_current") /\ Fetched("airnow_forecast")
              /\ FetchedWith("airnow_current", "ok") => Printed("aqi")
        /\ show_astro /\ gridpoint.astronomicalData => Printed("astro")
        /\ show_taf /\ gridpoint.observationStations =>
              /\ Fetched("taf")
              /\ FetchedWith("taf", "ok") => Printed("taf")
        /\ show_fire /\ gridpoint.fireWeatherZone =>
              /\ Fetched("fire")
              /\ FetchedWith("fire", "ok") => Printed("fire")

\* C7 (as claimed): in a regional output every requested facet that was not
\* obtained is represented by its "unavailable" marker.
C7_FailedFacetsAreMarked ==
    RegionalOutput =>
        /\ ~(ForecastPrinted \/ Printed("hourly")) =>
              Printed("forecast_unavailable") \/ Printed("hourly_no_data")
        /\ show_current /\ ~ObservationPrinted =>
              Printed("observation_unavailable")
        /\ show_aqi /\ ~Printed("aqi") => Printed("aqi_unavailable")
        /\ show_astro /\ ~Printed("astro") => Printed("astro_unavailable")
        /\ show_taf /\ ~Printed("taf") => Printed("taf_unavailable")
        /\ show_fire /\ ~Printed("fire") => Printed("fire_unavailable")

\* C8 (as claimed): whenever AQI was requested and the global block is
\* printed, the note that AQI is unavailable outside regional coverage is
\* printed with it.
C8_AqiNoteUnderGlobalFallback ==
    Done /\ show_aqi /\ Printed("wttr") => Printed("aqi_note")

\* C9: on the global path, if neither global request yields data the run
\* ends with NoWeatherDataAvailable and prints no facet output, not even
\* the AQI note; otherwise it ends normally and prints the global block.
C9_GlobalPathOutcome ==
    Done /\ GlobalContacted =>
        /\ Fetched("wttr_forecast") /\ Fetched("wttr_current")
        /\ IF FetchedWith("wttr_forecast", "fail")
                /\ FetchedWith("wttr_current", "fail")
           THEN /\ exit_status = "NoWeatherDataAvailable"
                /\ NoFacetPrinted
           ELSE /\ exit_status = "ok"
                /\ Printed("wttr")

C9_Witness ==
    /\ Done
    /\ show_aqi /\ ~use_nws
    /\ FetchedWith("wttr_forecast", "fail")
    /\ FetchedWith("wttr_current", "fail")
    /\ exit_status = "NoWeatherDataAvailable"
    /\ outputs # <<>>

\* C10 (as claimed): every run ends with a printed fact set, with
\* LocationNotFound or with NoWeatherDataAvailable, and it is fatal only
\* after a failed geocoding or when no path produced data.
C10_ThreeOutcomes ==
    Done =>
        /\ exit_status \in {"ok", "LocationNotFound", "NoWeatherDataAvailable"}
        /\ exit_status = "ok" => ~NoFacetPrinted
        /\ exit_status = "LocationNotFound" => FetchedWith("geocode", "fail")
        /\ exit_status = "NoWeatherDataAvailable" =>
              /\ FetchedWith("wttr_forecast", "fail")
              /\ FetchedWith("wttr_current", "fail")

(***************************************************************************)
(* C11..C20: the presentation order, the winter heuristic, the source      *)
(* selection and the temporal parser.                                      *)
(***************************************************************************)
\* the blocks of the primary facet: forecast, alerts, accumulations, hourly
PrimaryItems ==
    {"forecast", "forecast_alert_active", "alerts", "accumulations",
     "hourly", "hourly_no_data", "hourly_header_only"}

ObservationItems == {"observation", "observation_vs_forecast"}

\* the place of a printed block in the presentation order; the observation
\* blocks are left out of the order
FacetRank(item) ==
    CASE item \in PrimaryItems -> 1
      [] item \in {"aqi", "aqi_header_only"} -> 2
      [] item = "astro" -> 3
      [] item \in {"taf", "taf_header", "", "taf_unavailable"} -> 4
      [] item \in {"fire", "fire_unavailable"} -> 5
      [] OTHER -> 0

\* C11: in a regional output the blocks of the primary facet come first,
\* then those of AQI, astronomy, aviation and fire weather, in that order,
\* whichever facets were requested and whichever of them failed.
C11_FacetOrder ==
    RegionalOutput =>
        \A i \in 1..Len(stdout) : \A j \in (i + 1)..Len(stdout) :
            FacetRank(stdout[i]) # 0 /\ FacetRank(stdout[j]) # 0 =>
                FacetRank(stdout[i]) <= FacetRank(stdout[j])

C11_Witness ==
    /\ RegionalOutput
    /\ Printed("forecast_alert_active") /\ Printed("alerts")
    /\ ObservationPrinted
    /\ Printed("aqi_header_only")
    /\ Printed("astro")
    /\ Printed("taf_unavailable")
    /\ Printed("fire")

\* C12 (as claimed): in a regional output that holds the observation block,
\* every block of the primary facet (forecast, alerts, accumulations)
\* precedes it, the block right before it is a primary one unless there is
\* no primary block at all, and every block of AQI, astronomy, aviation and
\* fire weather follows it.
C12_ObservationAfterPrimaryBlock ==
    RegionalOutput =>
        \A k \in 1..Len(stdout) :
            stdout[k] \in ObservationItems =>
                /\ \A i \in 1..Len(stdout) :
                      /\ stdout[i] \in PrimaryItems => i < k
                      /\ FacetRank(stdout[i]) > 1 => i > k
                /\ k > 1 => stdout[k - 1] \in PrimaryItems

\* C13 (as claimed): a finished run that obtained a gridpoint (with its
\* forecast link) for a query holding a winter keyword has asked the grid
\* time-series endpoint, and, on a regional output, shows the block of the
\* accumulation extractor; temporal or not.
C13_WinterQueryFetchesGridData ==
    Done /\ gridpoint # None /\ IsWinterQuery(location) =>
        /\ gridpoint.forecast => Fetched("griddata")
        /\ RegionalOutput => Printed("accumulations")

\* no option given on the command line
DefaultOptions ==
    /\ source_pref = "auto"
    /\ ~show_aqi /\ ~force_hourly /\ ~show_current
    /\ ~show_astro /\ ~show_taf /\ ~show_fire

\* the endpoints of the observation, AQI, aviation and fire weather facets
OptionalFacetEndpoints ==
    {"stations", "observation", "airnow_current", "airnow_forecast", "taf",
     "fire"}

\* C14: a finished run of a non-temporal query with default options, a
\* gridpoint and a successful forecast request prints exactly one forecast
\* block and no block of the observation, AQI, astronomy, aviation or fire
\* weather facets, and has asked none of the endpoints of those facets.
C14_DefaultRunHasOnlyTheForecast ==
    Done /\ ~temporal_detected /\ DefaultOptions /\ gridpoint # None
         /\ FetchedWith("forecast", "ok") =>
        /\ exit_status = "ok"
        /\ Cardinality({k \in 1..Len(stdout) :
                           stdout[k] \in {"forecast", "forecast_alert_active"}})
              = 1
        /\ \A k \in 1..Len(stdout) : stdout[k] \in PrimaryItems
        /\ \A k \in 1..Len(fetched) :
              fetched[k].ep \notin OptionalFacetEndpoints

C14_Witness ==
    /\ Done /\ ~temporal_detected /\ DefaultOptions
    /\ location = Q_Boston_MA
    /\ gridpoint # None
    /\ FetchedWith("forecast", "ok")
    /\ stdout = <<"forecast">>

\* the number of requests issued to an endpoint
TimesFetched(ep) == Cardinality({k \in 1..Len(fetched) : fetched[k].ep = ep})

\* C15: the selected source depends on the override and the coordinate
\* only: "nws" selects the regional source and "wttr" the global one at
\* every coordinate, "auto" selects the regional source exactly inside the
\* box 24..49 by -125..-66, its border included.
C15_SourceSelection ==
    pc = "selected" =>
        /\ source_pref = "nws" => use_nws
        /\ source_pref = "wttr" => ~use_nws
        /\ source_pref = "auto" =>
              (use_nws <=> /\ lat \in 24..49
                           /\ lon \in (-125)..(-66))

C15_Witness ==
    /\ pc = "selected"
    /\ source_pref = "auto"
    /\ lat = 49 /\ lon = -125
    /\ use_nws

\* C16 (as claimed): once a request to an endpoint has failed, no later
\* request of the run goes to the same endpoint.
C16_NoEndpointAskedAgainAfterFailure ==
    \A i \in 1..Len(fetched) : \A j \in (i + 1)..Len(fetched) :
        fetched[i].res = "fail" => fetched[j].ep # fetched[i].ep

\* C16 (amended): no call is retried. Every endpoint but the alerts one is
\* asked at most once in a run, failed or not; the alerts endpoint is asked
\* a second time only by the fire weather stage, whatever its first answer
\* was, and that second request is the last one of the regional path.
C16_OneRequestPerCall ==
    \A i \in 1..Len(fetched) : \A j \in (i + 1)..Len(fetched) :
        fetched[i].ep = fetched[j].ep =>
            /\ fetched[i].ep = "alerts"
            /\ show_fire
            /\ pc \in {"finish", "done"}
            /\ \A k \in (j + 1)..Len(fetched) :
                  fetched[k].ep \notin RegionalEndpoints

C16_Witness ==
    /\ Done
    /\ FetchedWith("taf", "fail")
    /\ FetchedWith("fire", "fail")
    /\ TimesFetched("alerts") = 2
    /\ ~FetchedWith("alerts", "ok") /\ ~FetchedWith("alerts", "empty")

\* temporal detection and parsing have run and returned
Parsed == pc # "start" /\ exit_status # "Traceback"

\* C17 (as claimed): "Boston at 8 PM" is temporal with target 20:00, on the
\* day after "now" whenever now.hour >= 20 and on the same day whenever
\* now.hour < 20, and the target is later than "now".
C17_ClockTimeInTheFuture ==
    pc # "start" /\ location = P_Boston \o T_at_8_PM =>
        /\ temporal_detected
        /\ target_time \notin {None, ValueError}
        /\ exit_status # "Traceback"
        /\ target_time.hour = 20 /\ target_time.minute = 0
        /\ now.hour >= 20 => target_time.day = 1
        /\ now.hour < 20 => target_time.day = 0
        /\ TimeLess(now, target_time)

\* the parser returned the hour h, minute 0, of day d
TargetIs(d, h) ==
    /\ Parsed
    /\ target_time # None
    /\ target_time.day = d /\ target_time.hour = h /\ target_time.minute = 0

\* C18 (as claimed): whatever place name a day-part clause is attached to,
\* the target is the next day 08:00 for "tomorrow morning", 14:00 for
\* "tomorrow afternoon", 20:00 for "tomorrow night", 12:00 for a bare
\* "tomorrow", 20:00 for "tonight", and for "this afternoon" today 15:00
\* while that is still ahead and no target otherwise.
C18_DayPartHours ==
    pc # "start" =>
        \A p \in PlaceNames :
            /\ location = p \o T_tomorrow_morning => TargetIs(1, 8)
            /\ location = p \o T_tomorrow_afternoon => TargetIs(1, 14)
            /\ location = p \o T_tomorrow_night => TargetIs(1, 20)
            /\ location = p \o T_tomorrow => TargetIs(1, 12)
            /\ location = p \o T_tonight =>
                  TargetIs(0, 20) \/ TargetIs(1, 20)
            /\ location = p \o T_this_afternoon =>
                  IF now.hour < 15 THEN TargetIs(0, 15)
                  ELSE Parsed /\ target_time = None

\* the geocoding step has stripped the query
Stripped == clean_location # None

\* place names that hold no digit and no temporal word
PlainPlaceNames == {P_Boston, Q_Boston_MA, P_Knightdale}

\* C19 (as claimed): stripping "P at N", with an am/pm marker attached to
\* the number, separated from it by a space, or missing, gives back the
\* place name P; so "Boston at 8 PM" gives "Boston".
C19_AtClauseIsStripped ==
    Stripped =>
        \A p \in PlainPlaceNames : \A q \in AtClauses :
            location = p \o q => clean_location = p

\* a is a prefix of b
IsPrefix(a, b) == Len(a) <= Len(b) /\ SubSeq(b, 1, Len(a)) = a

\* C20 (as claimed): what the stripping gives back is a prefix of the query
\* (surrounding whitespace aside): nothing is taken out of the middle of the
\* text.
C20_StrippedIsPrefix ==
    Stripped => IsPrefix(clean_location, Strip(location))

(***************************************************************************)
(* C21..C26: the ranking of alerts, the accumulation events, the moon      *)
(* phase and the comparison of the observation with the forecast.          *)
(***************************************************************************)
\* C21: the ranked list is a permutation of the answer, in non-increasing
\* order of priority (the sum of the three weights, 0 for a label outside
\* its table), alerts of equal priority keep the order of the answer, and
\* an Extreme/Immediate/Observed alert precedes every Minor/Future/Possible
\* one.
C21_RankIsStableByPriority ==
    pc = "ranked" =>
        /\ Len(sorted_alerts) = Len(alerts)
        /\ \A k \in 1..Len(alerts) :
              \E j \in 1..Len(sorted_alerts) : sorted_alerts[j] = alerts[k]
        /\ \A i \in 1..Len(sorted_alerts) : \A j \in (i + 1)..Len(sorted_alerts) :
              LET a == sorted_alerts[i]
                  b == sorted_alerts[j]
                  score(x) == ALERT_SEVERITY_WEIGHTS(x.severity)
                                  + ALERT_URGENCY_WEIGHTS(x.urgency)
                                  + ALERT_CERTAINTY_WEIGHTS(x.certainty)
              IN  /\ score(a) >= score(b)
                  /\ score(a) = score(b) => a.id < b.id
                  /\ ~(/\ a.severity = "Minor" /\ a.urgency = "Future"
                       /\ a.certainty = "Possible"
                       /\ b.severity = "Extreme" /\ b.urgency = "Immediate"
                       /\ b.certainty = "Observed")

C21_Witness ==
    /\ pc = "ranked"
    /\ Len(alerts) = 3
    /\ alerts[1].severity = "Minor" /\ alerts[1].urgency = "Future"
    /\ alerts[1].certainty = "Possible"
    /\ alerts[2].severity = "Unknown" /\ alerts[2].urgency = "Past"
    /\ alerts[2].certainty = "Observed"
    /\ alerts[3].severity = "Extreme" /\ alerts[3].urgency = "Immediate"
    /\ alerts[3].certainty = "Observed"
    /\ sorted_alerts = <<alerts[3], alerts[1], alerts[2]>>

\* the entries of the three series of the grid data, with their type, their
\* place in the series and their converted value
SeriesEntries ==
    IF grid_data = None THEN {}
    ELSE LET snow == grid_data.snowfallAmount
             ice == grid_data.iceAccumulation
             pop == grid_data.probabilityOfPrecipitation
         IN  { [type |-> "Snow", at |-> k, value |-> get_value(snow.values[k]),
                converted |-> to_inches(get_value(snow.values[k]), get_uom(snow)),
                threshold |-> 100000,
                time |-> strftime_a_I_p(snow.values[k].validTime.start)] :
                   k \in 1..Len(snow.values) }
             \cup
             { [type |-> "Ice", at |-> k, value |-> get_value(ice.values[k]),
                converted |-> to_inches(get_value(ice.values[k]), get_uom(ice)),
                threshold |-> 10000,
                time |-> strftime_a_I_p(ice.values[k].validTime.start)] :
                   k \in 1..Len(ice.values) }
             \cup
             { [type |-> "Precipitation Chance", at |-> k,
                value |-> get_value(pop.values[k]),
                converted |-> get_value(pop.values[k]),
                threshold |-> 30,
                time |-> strftime_a_I_p(pop.values[k].validTime.start)] :
                   k \in 1..Len(pop.values) }

Emitted(type, time) ==
    \E i \in 1..Len(accumulations) :
        /\ accumulations[i].type = type
        /\ accumulations[i].time = time

EventOf(type, time) ==
    CHOOSE ev \in {accumulations[i] : i \in 1..Len(accumulations)} :
        ev.type = type /\ ev.time = time

\* C23: a depth is converted to inches by the unit of its series, x0.03937
\* for millimeters, x0.3937 for centimeters and x39.37 for a unit with "m"
\* and without "mm"; so 2.0 mm of snow (0.07874 in) gives no event and
\* 50 mm of snow gives a Snow event of 1.9685 in, shown to one decimal.
C23_DepthsAreConvertedByUnit ==
    (pc # "extract" /\ grid_data # None) =>
        LET snow == grid_data.snowfallAmount
            factor == IF get_uom(snow) = U_mm THEN 3937
                      ELSE IF get_uom(snow) = U_cm THEN 39370
                      ELSE IF get_uom(snow) = U_m THEN 3937000
                      ELSE 100000
        IN  \A k \in 1..Len(snow.values) :
                LET value == get_value(snow.values[k])
                    time == strftime_a_I_p(snow.values[k].validTime.start)
                IN  (k <= 8 /\ value > 0) =>
                        /\ convert_to_inches(value, get_uom(snow)) = value * factor
                        /\ Emitted("Snow", time) <=> value * factor >= 100000
                        /\ Emitted("Snow", time) =>
                              LET shown == EventOf("Snow", time).amount.value
                              IN  /\ shown - value * factor <= 50000
                                  /\ value * factor - shown <= 50000
                        /\ (get_uom(snow) = U_mm /\ value = 20)
                              => ~Emitted("Snow", time)
                        /\ (get_uom(snow) = U_mm /\ value = 500)
                              => /\ Emitted("Snow", time)
                                 /\ value * factor = 1968500

\* a snow series in millimeters with 2.0 mm, without an event, and 50 mm,
\* with an event of 2.0 in
C23_Witness ==
    /\ pc = "formatted"
    /\ grid_data # None
    /\ get_uom(grid_data.snowfallAmount) = U_mm
    /\ \E k \in 1..Len(grid_data.snowfallAmount.values) :
          LET item == grid_data.snowfallAmount.values[k]
          IN  /\ get_value(item) = 20
              /\ ~Emitted("Snow", strftime_a_I_p(item.validTime.start))
    /\ \E k \in 1..Len(grid_data.snowfallAmount.values) :
          LET item == grid_data.snowfallAmount.values[k]
              time == strftime_a_I_p(item.validTime.start)
          IN  /\ get_value(item) = 500
              /\ Emitted("Snow", time)
              /\ EventOf("Snow", time).amount.value = 2000000

\* C24: every event of the grid data or of the forecast text has a type
\* among Snow, Ice and PrecipitationChance, a number as amount, a unit among
\* inches and percent, and a time label.
C24_EveryEventIsWellFormed ==
    LET WellFormed(ev) ==
            /\ {"type", "amount", "unit", "time"} \subseteq DOMAIN ev
            /\ ev.type \in {"Snow", "Ice", "Precipitation Chance"}
            /\ ev.amount.type = "number"
            /\ ev.unit \in {"inches", "percent"}
    IN  /\ pc # "extract"
            => \A i \in 1..Len(accumulations) : WellFormed(accumulations[i])
        /\ (pc = "formatted" /\ accumulations = <<>> /\ forecast_periods # <<>>)
            => \A i \in 1..Len(parsed) : WellFormed(parsed[i])

\* C25: the phase index is one of 0..7 and the illumination is
\* 100 * (1 - |p - 4| / 4) up to the full moon and its mirror image after it
\* (the illumination of 8 - p for p in 5..7), so always from 0 to 100.
C25_IlluminationIsTriangular ==
    pc = "mooned" =>
        LET p == moon_info.phase
            q == IF p > 4 THEN 8 - p ELSE p
        IN  /\ p \in 0..7
            /\ moon_info.illumination = 100 - 25 * (4 - q)
            /\ moon_info.illumination >= 0
            /\ moon_info.illumination <= 100

\* C26: with delta the observed temperature less the forecast one, in
\* Fahrenheit, the comparison reads "matches forecast" exactly when
\* |delta| <= 2, "warmer than forecast" exactly when delta > 2 and "cooler
\* than forecast" exactly when delta < -2, a delta with a fraction such as
\* 2.4 included; without a forecast value there is no comparison.
C26_ComparisonByDelta ==
    (pc = "observation_formatted" /\ "temp" \in DOMAIN formatted_obs) =>
        IF forecast_temp = None THEN formatted_obs.comparison = None
        ELSE LET delta == current_obs.temperature.value * 18 + 3200
                              - forecast_temp.value * 100
                 label == formatted_obs.comparison.label
             IN  /\ label = "matches forecast" <=> (delta <= 200 /\ delta >= -200)
                 /\ label = "warmer than forecast" <=> delta > 200
                 /\ label = "cooler than forecast" <=> delta < -200

(***************************************************************************)
(* C27..C30: the target time, the alerts of the hourly answer, the text    *)
(* handed to the providers and the sources of the printed facts.           *)
(***************************************************************************)
\* C27: for a query taken as temporal, by a pattern or by --hourly, the
\* resolution of the target time ends without an error, with no time or with
\* a time of hour 0..23 and minute 0..59, whatever groups of digits the
\* query holds.
C27_TargetTimeResolves ==
    (pc # "start" /\ temporal_detected) =>
        /\ exit_status # "Traceback"
        /\ \/ target_time = None
           \/ /\ target_time.hour \in 0..23
              /\ target_time.minute \in 0..59

\* C28: whenever a forecast of the regional source, hourly or standard, is
\* printed for a gridpoint with a forecast zone, the alerts of the zone have
\* been asked for, and they are printed when there are any; so also for a
\* temporal query answered from the hourly endpoint.
C28_ForecastComesWithAlerts ==
    (Done /\ exit_status = "ok" /\ (ForecastPrinted \/ Printed("hourly"))
          /\ gridpoint.forecastZone) =>
        /\ Fetched("alerts")
        /\ FetchedWith("alerts", "ok") => Printed("alerts")

\* C29: every lookup by place text uses the stripped query: the text sent to
\* the global provider, for the conditions and for the outlook, is the
\* stripped text that was sent to the geocoder, never the query with its
\* temporal clause.
C29_GlobalLookupUsesStrippedText ==
    \A k \in 1..Len(sent) :
        sent[k].ep \in {"wttr_forecast", "wttr_current"} =>
            /\ sent[k].text = clean_location
            /\ \E g \in 1..Len(sent) :
                  /\ sent[g].ep = "geocode"
                  /\ sent[g].text = sent[k].text

\* the blocks of the global path: the answer of the global provider and the
\* AQI note
GlobalItems == {"wttr", "aqi_note_header", "aqi_note"}

\* a block of the regional path (an empty line belongs to either)
RegionalItem(item) ==
    item \notin Messages /\ item \notin GlobalItems /\ item # ""

\* C30: what is printed never mixes the sources: it holds blocks of the
\* regional path only, or the answer of the global provider only (with the
\* AQI note), and the global provider is asked only when the regional path
\* has produced no block.
C30_SourcesAreNotMixed ==
    /\ (\E j \in 1..Len(stdout) : stdout[j] \in GlobalItems) =>
          \A i \in 1..Len(stdout) : ~RegionalItem(stdout[i])
    /\ GlobalContacted =>
          \A k \in 1..Len(outputs) : ~RegionalItem(outputs[k])

\* the regional path was tried, its forecast failed, and the answer of the
\* global provider is printed behind the warning
C30_Witness ==
    /\ Done
    /\ exit_status = "ok"
    /\ FetchedWith("forecast", "fail")
    /\ Printed("warn_nws_unavailable")
    /\ Printed("wttr")
    /\ ~show_aqi

====
